---- MODULE Spec2Model ----
(***************************************************************************)
(* Model of the Mattermost interface of agnoteamost                        *)
(* (src/src/agnoteamost/interfaces/mattermost/mattermost.py): the stream   *)
(* handler pipeline (filter, dispatch, chunked send) and the chunker.      *)
(* Text is a sequence of one-character strings, so that str.replace,       *)
(* str.strip, str.rfind, slicing and f-string formatting are computed      *)
(* character by character as Python computes them.                         *)
(***************************************************************************)
EXTENDS Integers, Sequences, FiniteSets, TLC

\* ------------------------------------------------------------------ bounds

\* longest message text drawn for the chunker
MaxTextLen == 7

\* largest max_message_length drawn for the chunker
MaxChunkLen == 4

\* ------------------------------------------------------------------ text

\* None of Python, where a text is expected: no text, since a text is a sequence of
\* one-character strings
NoneVal == <<"None">>

\* the characters str.lstrip() / str.strip() remove, among those texts here use
Whitespace == {" ", "\n"}

\* the characters message texts of the chunker are drawn from
ChunkAlphabet == {"a", " ", "\n"}

\* s[i:] of Python, i a 0-based index with 0 <= i
DropFirst(s, i) == SubSeq(s, i + 1, Len(s))

\* s[:i] of Python, 0 <= i
TakeFirst(s, i) == SubSeq(s, 1, IF i < Len(s) THEN i ELSE Len(s))

\* s.startswith(p)
StartsWith(s, p) == Len(p) <= Len(s) /\ SubSeq(s, 1, Len(p)) = p

\* p in s
Contains(s, p) == \E i \in 0..(Len(s) - Len(p)) : SubSeq(s, i + 1, i + Len(p)) = p

RECURSIVE RFindFrom(_, _, _)
\* the highest 0-based index at most i at which p occurs in s, -1 when none
RFindFrom(s, p, i) ==
    IF i < 0 THEN 0 - 1
    ELSE IF \A k \in 1..Len(p) : s[i + k] = p[k] THEN i
    ELSE RFindFrom(s, p, i - 1)

\* s.rfind(p): the highest 0-based index at which p occurs in s, -1 when none
RFind(s, p) == RFindFrom(s, p, Len(s) - Len(p))

RECURSIVE LStrip(_)
\* s.lstrip()
LStrip(s) == IF s # <<>> /\ Head(s) \in Whitespace THEN LStrip(Tail(s)) ELSE s

RECURSIVE RStrip(_)
\* s.rstrip()
RStrip(s) ==
    IF s # <<>> /\ s[Len(s)] \in Whitespace THEN RStrip(SubSeq(s, 1, Len(s) - 1)) ELSE s

\* s.strip()
Strip(s) == RStrip(LStrip(s))

RECURSIVE Remove(_, _)
\* s.replace(p, ""), p non-empty: the non-overlapping occurrences, left to right
Remove(s, p) ==
    IF Len(s) < Len(p) THEN s
    ELSE IF SubSeq(s, 1, Len(p)) = p THEN Remove(DropFirst(s, Len(p)), p)
    ELSE <<Head(s)>> \o Remove(Tail(s), p)

RECURSIVE Concat(_)
\* "".join(parts)
Concat(parts) == IF parts = <<>> THEN <<>> ELSE Head(parts) \o Concat(Tail(parts))

\* every text over the alphabet of length at most n
TextsUpTo(alphabet, n) == UNION {[1..k -> alphabet] : k \in 0..n}

\* ------------------------------------------------------------------ chunker

\* the preferences in the opposite order: a space before a newline
SplitCharsSpaceFirst == << <<" ">>, <<"\n">>, <<"\n", "\n">> >>

\* the split preferences of _chunk_message, in order
SplitChars == << <<"\n", "\n">>, <<"\n">>, <<" ">> >>

RECURSIVE FirstBreak(_, _)
\* the for loop of _chunk_message over the remaining preferences: the last
\* occurrence of the first preference that occurs at an index > 0, else 0
FirstBreak(head, prefs) ==
    IF prefs = <<>> THEN 0
    ELSE LET last_break == RFind(head, Head(prefs))
         IN  IF last_break > 0 THEN last_break ELSE FirstBreak(head, Tail(prefs))

\* a split that ignores the length limit when it finds no break
SplitPointNoLimit(message, maxLen) ==
    LET last_break == FirstBreak(message, SplitChars)
    IN  IF last_break > 0 THEN last_break ELSE Len(message)

\* a split that also takes a break found at the very start of the text
SplitPointFromStart(message, maxLen) ==
    LET head == TakeFirst(message, maxLen)
    IN  IF RFind(head, <<"\n", "\n">>) >= 0 THEN RFind(head, <<"\n", "\n">>)
        ELSE IF RFind(head, <<"\n">>) >= 0 THEN RFind(head, <<"\n">>)
        ELSE IF RFind(head, <<" ">>) >= 0 THEN RFind(head, <<" ">>)
        ELSE maxLen

\* split_point of one loop iteration, for a message longer than maxLen
SplitPoint(message, maxLen) ==
    LET last_break == FirstBreak(TakeFirst(message, maxLen), SplitChars)
    IN  IF last_break > 0 THEN last_break ELSE maxLen

\* a remainder from which one character is cut whether it is whitespace or not
RestAfterCutOne(message, split) ==
    IF split < Len(message) THEN LStrip(DropFirst(message, split + 1)) ELSE <<>>

\* message[split_point:].lstrip()
RestAfter(message, split) == LStrip(DropFirst(message, split))

RECURSIVE ChunkLoop(_, _, _)
\* the while loop of _chunk_message
ChunkLoop(message, chunks, maxLen) ==
    IF message = <<>> THEN chunks
    ELSE IF Len(message) <= maxLen THEN Append(chunks, message)
    ELSE LET split_point == SplitPoint(message, maxLen)
         IN  ChunkLoop(RestAfter(message, split_point),
                       Append(chunks, TakeFirst(message, split_point)),
                       maxLen)

\* _chunk_message with config.max_message_length = maxLen
ChunkMessage(message, maxLen) ==
    IF Len(message) <= maxLen THEN <<message>> ELSE ChunkLoop(message, <<>>, maxLen)

\* ------------------------------------------------------------------ pipeline bounds

\* most events of one stream whose handlers run concurrently
MaxEvents == 2

\* the small max_message_length of the configurations drawn
SmallMax == 34

\* the large max_message_length of the configurations drawn
LargeMax == 40

\* ------------------------------------------------------------------ state

VARIABLES
    config,                 \* self.config: the MattermostConfig
    given,                  \* the arguments agent, team, workflow of the call of __init__
    built,                  \* the construction: "call" (about to run), "raised", or who
                            \*   constructed the interface: "create_app" or "direct"
    agent,                  \* self.agent
    team,                   \* self.team
    workflow,               \* self.workflow
    reply_to_mentions_only, \* self.reply_to_mentions_only
    shutdown,               \* TRUE once the cleanup of the application's lifespan has run
    driver,                 \* self._driver: "none", "created", "logged_in"
    bot_user_id,            \* self._bot_user_id
    bot_username,           \* self._bot_username
    running,                \* self._running
    listener,               \* the start_websocket_listener task: "start", "running",
                            \*   "asleep", "raised", "finished"
    websocket,              \* TRUE when init_websocket has bound the event handler
    stream,                 \* the events the platform delivers on the websocket
    delivered,              \* how many of them _handle_websocket_event has been called with
    handlers,               \* the frame of the handler of each delivered event
    dispatched,             \* the calls made to the entity's arun, in order
    posted,                 \* the calls to posts.create_post that returned, in order
    driver_calls,           \* the calls made to the driver's session API, in order
    requests,               \* the HTTP requests the application receives
    served,                 \* how many of them a route handler has been called with
    http_frames,            \* the frame of the route handler of each such request
    request_token,          \* validate_mattermost_token on its own: the first argument
    expected_token,         \*   the second argument
    token_result,           \*   "pending", or how the call ended
    chunk_input,            \* the chunker run on its own: the argument of _chunk_message
    chunk_max,              \*   config.max_message_length
    chunk_pc,               \*   where the run is: "idle", "call", "loop", "returned"
    c_message,              \*   the local variable message
    c_chunks                \*   the local list chunks

conn_vars == <<driver, bot_user_id, bot_username, running, listener, websocket, driver_calls>>

ctor_vars ==
    <<given, config, built, agent, team, workflow, reply_to_mentions_only, shutdown>>

pipe_vars == <<stream, delivered, handlers, dispatched, posted>>

chunk_vars == <<chunk_input, chunk_max, chunk_pc, c_message, c_chunks>>

http_vars == <<requests, served, http_frames>>

token_vars == <<request_token, expected_token, token_result>>

vars == <<ctor_vars, conn_vars, pipe_vars, chunk_vars, http_vars, token_vars>>

\* ------------------------------------------------------------------ values

\* settings.mattermost_bot_name of the configurations drawn
BotName == <<"b", "o", "t">>

\* the usernames the platform's who-am-I query answers with
LiveNames == {<<"b", "o", "t">>, <<"b", "o", "b">>}

\* the bot's user id on the platform
BotId == <<"B", "1">>

\* another user of the platform
UserId == <<"U", "1">>

\* the values of settings.mattermost_bot_id: unset, or the bot's id
BotIds == {<<>>, BotId}

Channels == {<<"C", "1">>, <<"C", "2">>}

\* root_id of a post: empty for a post that starts a thread
Roots == {<<>>, <<"R", "1">>}

Digits == <<"1", "2", "3", "4", "5", "6", "7", "8", "9">>

\* the id of the k-th post of a stream
PostIdOf(k) == <<"P", Digits[k]>>

\* "@bot hello", "hello", "@bob yo", "@bot "
Messages ==
    { <<"@", "b", "o", "t", " ", "h", "e", "l", "l", "o">>,
      <<"h", "e", "l", "l", "o">>,
      <<"@", "b", "o", "b", " ", "y", "o">>,
      <<"@", "b", "o", "t", " ">> }

\* None, "", "ok" and two paragraphs, "hello world again and again and" and "again"
Contents ==
    { NoneVal, <<>>, <<"o", "k">>,
      <<"h", "e", "l", "l", "o", " ", "w", "o", "r", "l", "d", " ",
        "a", "g", "a", "i", "n", " ", "a", "n", "d", " ", "a", "g", "a", "i", "n", " ",
        "a", "n", "d", "\n", "\n", "a", "g", "a", "i", "n">> }

\* str(e) of the exceptions the entity raises: two paragraphs, "a" and "boom"
Errors == { <<"a", "\n", "\n", "b", "o", "o", "m">> }

\* what awaiting entity.arun ends in: a response object (or None), or an exception
Outcomes ==
    {[kind |-> "returns", response |-> "none", content |-> NoneVal, error |-> NoneVal]}
    \cup {[kind |-> "returns", response |-> "object", content |-> c, error |-> NoneVal]
            : c \in Contents}
    \cup {[kind |-> "raises", response |-> "none", content |-> NoneVal, error |-> e]
            : e \in Errors}

NoOutcome == [kind |-> "pending", response |-> "none", content |-> NoneVal, error |-> NoneVal]

\* "Sorry, I encountered an error: "
ErrorPrefix ==
    <<"S", "o", "r", "r", "y", ",", " ", "I", " ",
      "e", "n", "c", "o", "u", "n", "t", "e", "r", "e", "d", " ",
      "a", "n", " ", "e", "r", "r", "o", "r", ":", " ">>

\* "mattermost"
SessionSource == <<"m", "a", "t", "t", "e", "r", "m", "o", "s", "t">>

\* a posted event envelope with its decoded post
PostedEvent(msg, ch, user, id, root, ctype, mentioned) ==
    [shape |-> "posted", message |-> msg, channel_id |-> ch, user_id |-> user,
     id |-> id, root_id |-> root, channel_type |-> ctype, mentioned_ids |-> mentioned]

\* an input of the stream that is not a well-formed posted event
OtherEvent(shape) ==
    [shape |-> shape, message |-> <<>>, channel_id |-> <<>>, user_id |-> <<>>,
     id |-> <<>>, root_id |-> <<>>, channel_type |-> "O", mentioned_ids |-> {}]

\* every posted event with post id id
PostedEvents(id) ==
    {PostedEvent(m, ch, u, id, r, t, mi) :
        m \in Messages, ch \in Channels, u \in {UserId, BotId}, r \in Roots,
        t \in {"D", "O"}, mi \in {{}, {BotId}}}

\* the channel and root_id of the events of a conversation: a reply in a thread of
\* the first channel, and a post that starts a thread of its own in the second
ThreadPlaces ==
    { <<ch, r>> \in Channels \X Roots : ch = <<"C", "1">> <=> r # <<>> }

\* the events of a conversation: another user writing "hello" in a direct channel
ThreadEvents(id) ==
    {PostedEvent(<<"h", "e", "l", "l", "o">>, p[1], UserId, id, p[2], "D", {}) :
        p \in ThreadPlaces}

\* streams of one event: every shape of input
SingleStreams ==
    {<<e>> : e \in PostedEvents(PostIdOf(1))
                   \cup {OtherEvent(s) : s \in {"invalid_json", "hello", "other", "bad_post"}}}

\* streams of n conversation events, the k-th with the k-th post id
ThreadStreams(n) ==
    {s \in [1..n -> ThreadEvents(PostIdOf(1)) \cup ThreadEvents(PostIdOf(2))
                    \cup ThreadEvents(PostIdOf(3)) \cup ThreadEvents(PostIdOf(4))] :
        \A k \in 1..n : s[k].id = PostIdOf(k)}

\* MattermostConfig(...) with the fields the interface reads
MattermostConfig(flag, name, id, maxLen) ==
    [reply_to_mentions_only |-> flag, bot_name |-> name, bot_id |-> id,
     max_message_length |-> maxLen]

\* ------------------------------------------------------------------ construction

\* the parameters of __init__ that take an entity
EntityKinds == {"agent", "team", "workflow"}

\* the Agent, Team or Workflow object a caller passes
EntityObject(kind) == <<kind, "object">>

\* the arguments of Mattermost(<kind>=entity, config=cfg, reply_to_mentions_only=reply)
Arguments(kind, cfg, reply) ==
    [agent |-> IF kind = "agent" THEN EntityObject(kind) ELSE NoneVal,
     team |-> IF kind = "team" THEN EntityObject(kind) ELSE NoneVal,
     workflow |-> IF kind = "workflow" THEN EntityObject(kind) ELSE NoneVal,
     config |-> cfg, reply_to_mentions_only |-> reply]

\* sum(x is not None for x in [agent, team, workflow])
Provided(args) == Cardinality({k \in EntityKinds : args[k] # NoneVal})

\* a check that only rejects a call without any entity
RejectedWhenNone(args) == Provided(args) = 0

\* the condition under which __init__ raises ValueError
Rejected(args) == Provided(args) # 1

\* the attributes __init__ sets from its arguments when it does not raise
NewMattermost(args) ==
    [agent |-> args.agent, team |-> args.team, workflow |-> args.workflow,
     config |-> args.config, reply_to_mentions_only |-> args.reply_to_mentions_only,
     driver |-> "none", bot_user_id |-> NoneVal, bot_username |-> args.config.bot_name,
     running |-> FALSE]

\* create_app: the config is built from the settings (max_message_length keeps its
\* default) and the interface is constructed with team= and config= only, so that
\* the parameter reply_to_mentions_only keeps its default, True
CreateApp(flag, name, id) ==
    LET args == Arguments("team", MattermostConfig(flag, name, id, LargeMax), TRUE)
    IN  [built |-> "create_app", given |-> args, self |-> NewMattermost(args)]

\* a direct construction, every argument given
Direct(kind, cfg, reply) ==
    LET args == Arguments(kind, cfg, reply)
    IN  [built |-> "direct", given |-> args, self |-> NewMattermost(args)]

\* the constructions drawn for streams of one event
AllConstructions ==
    {CreateApp(flag, BotName, id) : flag \in BOOLEAN, id \in BotIds}
    \cup {Direct(kind, MattermostConfig(flag, BotName, id, SmallMax), reply) :
            kind \in {"agent", "team", "workflow"}, flag \in BOOLEAN, id \in BotIds,
            reply \in BOOLEAN}

\* the constructions drawn for streams of several events
ThreadConstructions ==
    {Direct("agent", MattermostConfig(TRUE, BotName, BotId, SmallMax), TRUE)}

\* the state after the construction c, before the listener task has run
Constructed(c) ==
    /\ given = c.given
    /\ built = c.built
    /\ config = c.self.config
    /\ agent = c.self.agent
    /\ team = c.self.team
    /\ workflow = c.self.workflow
    /\ reply_to_mentions_only = c.self.reply_to_mentions_only
    /\ shutdown = FALSE
    /\ driver = c.self.driver
    /\ bot_user_id = c.self.bot_user_id
    /\ bot_username = c.self.bot_username
    /\ running = c.self.running
    /\ listener = "start"
    /\ websocket = FALSE
    /\ driver_calls = <<>>

\* no HTTP request has been received
HttpIdle ==
    /\ requests = <<>>
    /\ served = 0
    /\ http_frames = <<>>

\* validate_mattermost_token is not being called
TokenIdle ==
    /\ request_token = NoneVal
    /\ expected_token = <<>>
    /\ token_result = "idle"

ChunkerIdle ==
    /\ chunk_input = <<>>
    /\ chunk_max = 1
    /\ chunk_pc = "idle"
    /\ c_message = <<>>
    /\ c_chunks = <<>>

PipelineIdle(s) ==
    /\ stream = s
    /\ delivered = 0
    /\ handlers = <<>>
    /\ dispatched = <<>>
    /\ posted = <<>>

Init ==
    /\ \/ \E c \in AllConstructions, s \in SingleStreams :
            Constructed(c) /\ PipelineIdle(s)
       \/ \E c \in ThreadConstructions, n \in 2..MaxEvents :
            \E s \in ThreadStreams(n) : Constructed(c) /\ PipelineIdle(s)
    /\ ChunkerIdle
    /\ HttpIdle
    /\ TokenIdle

\* ------------------------------------------------------------------ connect

\* the user object users.get_user("me") answers with
Me == {[id |-> BotId, username |-> n] : n \in LiveNames}

\* a call of the driver: login, users.get_user("me"), init_websocket or logout,
\* and whether it returned (ok) or raised
PlatformCall(op, ok) == [op |-> op, ok |-> ok]

\* a connect() that tries login a second time when it fails, and then goes on
ConnectRetrying ==
    /\ listener = "start"
    /\ \E ok \in BOOLEAN :
          /\ driver_calls' = driver_calls \o
                  <<PlatformCall("login", ok), PlatformCall("login", TRUE),
                    PlatformCall("init_websocket", TRUE)>>
    /\ driver' = "logged_in"
    /\ bot_user_id' = BotId
    /\ running' = TRUE
    /\ websocket' = TRUE
    /\ listener' = "running"
    /\ UNCHANGED <<bot_username, ctor_vars, pipe_vars, chunk_vars, http_vars, token_vars>>

\* connect(), called by start_websocket_listener: login, identity, event stream
Connect ==
    /\ listener = "start"
    /\ \/ \* self._driver.login() raises
          /\ driver' = "created"
          /\ listener' = "raised"
          /\ driver_calls' = driver_calls \o <<PlatformCall("login", FALSE)>>
          /\ UNCHANGED <<bot_user_id, bot_username, running, websocket>>
       \/ \* the configured bot id is used
          /\ config.bot_id # <<>>
          /\ driver' = "logged_in"
          /\ bot_user_id' = config.bot_id
          /\ running' = TRUE
          /\ \E ok \in BOOLEAN :
                /\ websocket' = (websocket \/ ok)
                /\ listener' = IF ok THEN "running" ELSE "raised"
                /\ driver_calls' = driver_calls \o
                        <<PlatformCall("login", TRUE), PlatformCall("init_websocket", ok)>>
          /\ UNCHANGED bot_username
       \/ \* users.get_user("me") raises
          /\ config.bot_id = <<>>
          /\ driver' = "logged_in"
          /\ listener' = "raised"
          /\ driver_calls' = driver_calls \o
                  <<PlatformCall("login", TRUE), PlatformCall("get_user", FALSE)>>
          /\ UNCHANGED <<bot_user_id, bot_username, running, websocket>>
       \/ \* the identity is fetched
          /\ config.bot_id = <<>>
          /\ \E me \in Me :
                /\ bot_user_id' = me.id
                /\ bot_username' = me.username
          /\ driver' = "logged_in"
          /\ running' = TRUE
          /\ \E ok \in BOOLEAN :
                /\ websocket' = (websocket \/ ok)
                /\ listener' = IF ok THEN "running" ELSE "raised"
                /\ driver_calls' = driver_calls \o
                        <<PlatformCall("login", TRUE), PlatformCall("get_user", TRUE),
                          PlatformCall("init_websocket", ok)>>
    /\ UNCHANGED <<ctor_vars, pipe_vars, chunk_vars, http_vars, token_vars>>

\* ------------------------------------------------------------------ filter

\* a or b of Python, on strings
Or(a, b) == IF a # <<>> THEN a ELSE b

\* bool(x) of an optional string
Truthy(x) == x # NoneVal /\ x # <<>>

\* a self check that compares the author with the bot's username
IsSelfByName(ev) == ev.user_id = bot_username

\* user_id == self._bot_user_id
IsSelf(ev) == ev.user_id = bot_user_id

\* is_dm
IsDm(ev) == ev.channel_type = "D"

\* is_explicit_mention
IsExplicitMention(ev) == Truthy(bot_user_id) /\ bot_user_id \in ev.mentioned_ids

\* a text check that looks for the live username only
IsTextMentionLiveOnly(ev) == Contains(ev.message, <<"@">> \o bot_username)

\* is_text_mention
IsTextMention(ev) ==
    \/ Contains(ev.message, <<"@">> \o bot_username)
    \/ Contains(ev.message, <<"@">> \o config.bot_name)

\* is_mention
IsMention(ev) == IsExplicitMention(ev) \/ IsTextMention(ev)

\* a cleaning that forgets to strip
CleanMessageNoStrip(text) ==
    Remove(Remove(text, <<"@">> \o bot_username), <<"@">> \o config.bot_name)

\* clean_message
CleanMessage(text) ==
    Strip(Remove(Remove(text, <<"@">> \o bot_username), <<"@">> \o config.bot_name))

\* a thread id that is always the post's own id
ThreadIdOwnPost(ev) == ev.id

\* root_id or post_id
ThreadId(ev) == Or(ev.root_id, ev.id)

\* a session id with the thread before the channel
SessionIdThreadFirst(channel_id, thread_id) ==
    SessionSource \o <<"_">> \o thread_id \o <<"_">> \o channel_id

\* a session id that names the channel only
SessionIdChannelOnly(channel_id, thread_id) ==
    SessionSource \o <<"_">> \o channel_id

\* session_id of _process_message
SessionId(channel_id, thread_id) ==
    SessionSource \o <<"_">> \o channel_id \o <<"_">> \o thread_id

\* a handler that runs the filter on whatever the input carries
VerdictAnyShape(ev) ==
    IF IsSelf(ev) THEN "self"
    ELSE IF reply_to_mentions_only /\ ~IsDm(ev) /\ ~IsMention(ev) THEN "policy"
    ELSE IF CleanMessage(ev.message) = <<>> THEN "empty"
    ELSE "dispatch"

\* what _handle_websocket_event does with the event, up to the await of arun:
\* "error" (an exception caught and logged), "ignored" (not a posted event),
\* "self", "policy", "empty" (the three returns of _handle_posted_event), "dispatch"
Verdict(ev) ==
    IF ev.shape = "invalid_json" THEN "error"
    ELSE IF ev.shape # "posted" /\ ev.shape # "bad_post" THEN "ignored"
    ELSE IF ev.shape = "bad_post" THEN "error"
    ELSE IF IsSelf(ev) THEN "self"
    ELSE IF reply_to_mentions_only /\ ~IsDm(ev) /\ ~IsMention(ev) THEN "policy"
    ELSE IF CleanMessage(ev.message) = <<>> THEN "empty"
    ELSE "dispatch"

\* ------------------------------------------------------------------ handler

\* the frame of a handler that returned before any await
Returned(ev, verdict) ==
    [pc |-> "done", verdict |-> verdict, clean_message |-> <<>>, session_id |-> <<>>,
     channel_id |-> ev.channel_id, thread_id |-> <<>>, outcome |-> NoOutcome,
     response |-> NoneVal, messages |-> <<>>, sent |-> 0, send_error |-> FALSE]

\* the frame of a handler suspended in _process_message, awaiting the entity
Awaiting(ev) ==
    [pc |-> "awaiting", verdict |-> "dispatch",
     clean_message |-> CleanMessage(ev.message),
     session_id |-> SessionId(ev.channel_id, ThreadId(ev)),
     channel_id |-> ev.channel_id, thread_id |-> ThreadId(ev), outcome |-> NoOutcome,
     response |-> NoneVal, messages |-> <<>>, sent |-> 0, send_error |-> FALSE]

\* the entity the chain if self.agent / elif self.team / elif self.workflow of
\* _process_message calls, "none" when it reaches the else
EntityKind ==
    IF agent # NoneVal THEN "agent"
    ELSE IF team # NoneVal THEN "team"
    ELSE IF workflow # NoneVal THEN "workflow"
    ELSE "none"

\* the call <entity>.arun(message=..., session_id=...) made for the i-th event
ArunCall(i, frame) ==
    [ev |-> i, entity |-> EntityKind, message |-> frame.clean_message,
     session_id |-> frame.session_id]

\* _handle_websocket_event called with the next event of the stream: parsing, the
\* filter of _handle_posted_event and, for an event that passes, the call of arun
HandleWebsocketEvent ==
    /\ websocket
    /\ delivered < Len(stream)
    /\ LET i == delivered + 1
           ev == stream[i]
       IN  /\ delivered' = i
           /\ IF Verdict(ev) = "dispatch"
              THEN /\ handlers' = Append(handlers, Awaiting(ev))
                   /\ dispatched' = Append(dispatched, ArunCall(i, Awaiting(ev)))
              ELSE /\ handlers' = Append(handlers, Returned(ev, Verdict(ev)))
                   /\ UNCHANGED dispatched
    /\ UNCHANGED <<stream, posted, ctor_vars, conn_vars, chunk_vars, http_vars, token_vars>>

\* a dispatch that lets the entity's exception through to _handle_posted_event,
\* whose except clause logs it
ProcessResultNoCatch(outcome) ==
    IF outcome.kind = "raises" THEN NoneVal
    ELSE IF outcome.response = "none" THEN NoneVal
    ELSE outcome.content

\* a dispatch that answers a stock text when the entity produced nothing
ProcessResultStockText(outcome) ==
    IF outcome.kind = "raises" THEN ErrorPrefix \o outcome.error
    ELSE IF outcome.response = "none" \/ ~Truthy(outcome.content)
    THEN <<"n", "o", " ", "r", "e", "s", "p", "o", "n", "s", "e">>
    ELSE outcome.content

\* the value _process_message returns once arun has ended in outcome
ProcessResult(outcome) ==
    IF outcome.kind = "raises" THEN ErrorPrefix \o outcome.error
    ELSE IF outcome.response = "none" THEN NoneVal
    ELSE outcome.content

\* post_data of _send_response; root_id is set only when it is non-empty
PostData(channel_id, msg, root_id) ==
    [channel_id |-> channel_id, message |-> msg,
     root_id |-> IF root_id # <<>> THEN root_id ELSE NoneVal]

\* a loop that walks the chunks from the last to the first
NextChunkReversed(frame) == frame.messages[Len(frame.messages) - frame.sent]

\* msg of the next iteration of the for loop of _send_response
NextChunk(frame) == frame.messages[frame.sent + 1]

\* a sender that tries the same chunk again after a failed create_post
SendChunkRetry(i, frame, ok) ==
    IF ok
    THEN /\ posted' = Append(posted,
                [ev |-> i,
                 data |-> PostData(frame.channel_id, NextChunk(frame), frame.thread_id)])
         /\ handlers' = [handlers EXCEPT ![i] =
                [frame EXCEPT !.pc = "sleeping", !.sent = frame.sent + 1]]
    ELSE /\ handlers' = [handlers EXCEPT ![i] =
                [frame EXCEPT !.pc = "sleeping", !.send_error = TRUE]]
         /\ UNCHANGED posted

\* one iteration of the for loop of _send_response for the i-th event:
\* create_post returns (ok) and the handler sleeps, or raises and the loop is left
SendChunk(i, frame, ok) ==
    IF ok
    THEN /\ posted' = Append(posted,
                [ev |-> i,
                 data |-> PostData(frame.channel_id, NextChunk(frame), frame.thread_id)])
         /\ handlers' = [handlers EXCEPT ![i] =
                [frame EXCEPT !.pc = "sleeping", !.sent = frame.sent + 1]]
    ELSE /\ handlers' = [handlers EXCEPT ![i] =
                [frame EXCEPT !.pc = "done", !.send_error = TRUE]]
         /\ UNCHANGED posted

\* arun ends for the i-th event: _process_message returns, and _handle_posted_event
\* sends the response, if any, up to the first sleep
EntityReturns(i) ==
    /\ handlers[i].pc = "awaiting"
    /\ \E outcome \in Outcomes :
        LET response == ProcessResult(outcome)
            frame == [handlers[i] EXCEPT !.outcome = outcome, !.response = response]
        IN  IF ~Truthy(response) \/ driver = "none"
            THEN /\ handlers' = [handlers EXCEPT ![i] = [frame EXCEPT !.pc = "done"]]
                 /\ UNCHANGED posted
            ELSE \E ok \in BOOLEAN :
                    SendChunk(i,
                        [frame EXCEPT !.messages =
                            ChunkMessage(response, config.max_message_length)],
                        ok)
    /\ UNCHANGED <<stream, delivered, dispatched, ctor_vars, conn_vars, chunk_vars, http_vars, token_vars>>

\* asyncio.sleep(0.1) ends for the i-th event: the next iteration, or the loop ends
AfterSleep(i) ==
    /\ handlers[i].pc = "sleeping"
    /\ IF handlers[i].sent < Len(handlers[i].messages)
       THEN \E ok \in BOOLEAN : SendChunk(i, handlers[i], ok)
       ELSE /\ handlers' = [handlers EXCEPT ![i] = [@ EXCEPT !.pc = "done"]]
            /\ UNCHANGED posted
    /\ UNCHANGED <<stream, delivered, dispatched, ctor_vars, conn_vars, chunk_vars, http_vars, token_vars>>

Next ==
    \/ Connect
    \/ HandleWebsocketEvent
    \/ \E i \in 1..Len(handlers) : EntityReturns(i)
    \/ \E i \in 1..Len(handlers) : AfterSleep(i)

Spec == Init /\ [][Next]_vars

\* ------------------------------------------------------------------ lifecycle

\* most driver calls after which connect() or disconnect() is called once more
MaxDriverCalls == 5

\* the entity property: the first of self.agent, self.team, self.workflow that is
\* set, ValueError when none is
Entity ==
    IF agent # NoneVal THEN agent
    ELSE IF team # NoneVal THEN team
    ELSE IF workflow # NoneVal THEN workflow
    ELSE <<"ValueError">>

\* __init__ runs on the arguments given: ValueError, or the attributes are set and
\* the listener task may start
Construct ==
    /\ built = "call"
    /\ IF Rejected(given)
       THEN /\ built' = "raised"
            /\ UNCHANGED <<given, config, agent, team, workflow, reply_to_mentions_only,
                           shutdown, conn_vars>>
       ELSE LET self == NewMattermost(given)
            IN  /\ built' = "direct"
                /\ agent' = self.agent
                /\ team' = self.team
                /\ workflow' = self.workflow
                /\ config' = self.config
                /\ reply_to_mentions_only' = self.reply_to_mentions_only
                /\ driver' = self.driver
                /\ bot_user_id' = self.bot_user_id
                /\ bot_username' = self.bot_username
                /\ running' = self.running
                /\ listener' = "start"
                /\ UNCHANGED <<given, shutdown, websocket, driver_calls>>
    /\ UNCHANGED <<pipe_vars, chunk_vars, http_vars, token_vars>>

\* the instance exists
IsConstructed == built \in {"direct", "create_app"}

\* connect() is called once more, by a new listener task or directly
CallConnectAgain ==
    /\ IsConstructed
    /\ listener \in {"running", "raised", "finished"}
    /\ Len(driver_calls) < MaxDriverCalls
    /\ listener' = "start"
    /\ UNCHANGED <<driver, bot_user_id, bot_username, running, websocket, driver_calls,
                   ctor_vars, pipe_vars, chunk_vars, http_vars, token_vars>>

\* a disconnect() that also ends every handler where it stands
DisconnectCancelling ==
    /\ IsConstructed
    /\ Len(driver_calls) < MaxDriverCalls
    /\ running' = FALSE
    /\ handlers' = [i \in 1..Len(handlers) |-> [handlers[i] EXCEPT !.pc = "done"]]
    /\ IF driver = "none"
       THEN UNCHANGED <<driver, driver_calls>>
       ELSE \E ok \in BOOLEAN :
                /\ driver_calls' = Append(driver_calls, PlatformCall("logout", ok))
                /\ driver' = IF ok THEN "logged_out" ELSE driver
    /\ UNCHANGED <<bot_user_id, bot_username, listener, websocket,
                   stream, delivered, dispatched, posted,
                   ctor_vars, chunk_vars, http_vars, token_vars>>

\* disconnect(): the running flag is cleared and, when a driver exists, logout is
\* called, which returns (ok) or raises
Disconnect ==
    /\ IsConstructed
    /\ Len(driver_calls) < MaxDriverCalls
    /\ running' = FALSE
    /\ IF driver = "none"
       THEN UNCHANGED <<driver, driver_calls>>
       ELSE \E ok \in BOOLEAN :
                /\ driver_calls' = Append(driver_calls, PlatformCall("logout", ok))
                /\ driver' = IF ok THEN "logged_out" ELSE driver
    /\ UNCHANGED <<bot_user_id, bot_username, listener, websocket,
                   ctor_vars, pipe_vars, chunk_vars, http_vars, token_vars>>

\* the loop of start_websocket_listener wakes from its sleep and finds the running
\* flag cleared: the task ends
ListenerWakes ==
    /\ listener = "running"
    /\ ~running
    /\ listener' = "finished"
    /\ UNCHANGED <<driver, bot_user_id, bot_username, running, websocket, driver_calls,
                   ctor_vars, pipe_vars, chunk_vars, http_vars, token_vars>>

\* the event of the lifecycle runs: "hello" by another user in a direct channel
LifeEvent ==
    PostedEvent(<<"h", "e", "l", "l", "o">>, <<"C", "1">>, UserId, PostIdOf(1), <<>>, "D", {})

\* __init__ is about to run on its arguments: any of agent, team and workflow given
\* or not, and a configuration with or without a bot id
InitLife ==
    /\ \E a \in {NoneVal, EntityObject("agent")}, t \in {NoneVal, EntityObject("team")},
          w \in {NoneVal, EntityObject("workflow")}, id \in BotIds :
            given = [agent |-> a, team |-> t, workflow |-> w,
                     config |-> MattermostConfig(TRUE, BotName, id, LargeMax),
                     reply_to_mentions_only |-> TRUE]
    /\ built = "call"
    /\ agent = NoneVal
    /\ team = NoneVal
    /\ workflow = NoneVal
    /\ config = NoneVal
    /\ reply_to_mentions_only = FALSE
    /\ shutdown = FALSE
    /\ driver = "none"
    /\ bot_user_id = NoneVal
    /\ bot_username = <<>>
    /\ running = FALSE
    /\ listener = "unborn"
    /\ websocket = FALSE
    /\ driver_calls = <<>>
    /\ PipelineIdle(<<LifeEvent>>)
    /\ ChunkerIdle
    /\ HttpIdle
    /\ TokenIdle

NextLife ==
    \/ Construct
    \/ Connect
    \/ CallConnectAgain
    \/ Disconnect
    \/ ListenerWakes
    \/ HandleWebsocketEvent
    \/ \E i \in 1..Len(handlers) : EntityReturns(i)
    \/ \E i \in 1..Len(handlers) : AfterSleep(i)

SpecLife == InitLife /\ [][NextLife]_vars

\* ------------------------------------------------------------------ application shutdown

\* the cleanup of the lifespan of create_app: await mattermost_interface.disconnect(),
\* which clears the running flag and logs out when a driver exists
Shutdown ==
    /\ built = "create_app"
    /\ ~shutdown
    /\ shutdown' = TRUE
    /\ running' = FALSE
    /\ IF driver = "none"
       THEN UNCHANGED <<driver, driver_calls>>
       ELSE \E ok \in BOOLEAN :
                /\ driver_calls' = Append(driver_calls, PlatformCall("logout", ok))
                /\ driver' = IF ok THEN "logged_out" ELSE driver
    /\ UNCHANGED <<given, config, built, agent, team, workflow, reply_to_mentions_only,
                   bot_user_id, bot_username, listener, websocket,
                   pipe_vars, chunk_vars, http_vars, token_vars>>

\* the loop of start_websocket_listener finds the running flag set and sleeps
ListenerSleeps ==
    /\ listener = "running"
    /\ running
    /\ listener' = "asleep"
    /\ UNCHANGED <<driver, bot_user_id, bot_username, running, websocket, driver_calls,
                   ctor_vars, pipe_vars, chunk_vars, http_vars, token_vars>>

\* asyncio.sleep(1) of the loop ends and the running flag is tested again
ListenerSleepEnds ==
    /\ listener = "asleep"
    /\ listener' = "running"
    /\ UNCHANGED <<driver, bot_user_id, bot_username, running, websocket, driver_calls,
                   ctor_vars, pipe_vars, chunk_vars, http_vars, token_vars>>

\* the lifespan of the application built by create_app has created the listener
\* task, which has not run yet; the platform will deliver one event
InitShutdown ==
    /\ \E flag \in BOOLEAN, id \in BotIds : Constructed(CreateApp(flag, BotName, id))
    /\ PipelineIdle(<<LifeEvent>>)
    /\ ChunkerIdle
    /\ HttpIdle
    /\ TokenIdle

NextShutdown ==
    \/ Connect
    \/ ListenerSleeps
    \/ ListenerSleepEnds
    \/ ListenerWakes
    \/ Shutdown
    \/ HandleWebsocketEvent
    \/ \E i \in 1..Len(handlers) : EntityReturns(i)
    \/ \E i \in 1..Len(handlers) : AfterSleep(i)

\* the event loop runs the listener task: its first step, connect(), is taken, and
\* each test of the flag and each sleep of its loop ends
SpecShutdown ==
    /\ InitShutdown
    /\ [][NextShutdown]_vars
    /\ WF_vars(Connect)
    /\ WF_vars(ListenerSleeps)
    /\ WF_vars(ListenerSleepEnds)
    /\ WF_vars(ListenerWakes)

\* ------------------------------------------------------------------ conversations

\* a second user of the platform
OtherUserId == <<"U", "2">>

\* who writes what in a conversation: "hello" by one user, "@bob yo" by another
Turns ==
    { [user_id |-> UserId, message |-> <<"h", "e", "l", "l", "o">>],
      [user_id |-> OtherUserId, message |-> <<"@", "b", "o", "b", " ", "y", "o">>] }

\* the events of a conversation of two posts: either channel, either turn, and a
\* post that starts a thread, replies in the thread R1 or replies to the first post
PairEvents(id) ==
    {PostedEvent(t.message, ch, t.user_id, id, r, "D", {}) :
        t \in Turns, ch \in Channels, r \in Roots \cup {PostIdOf(1)}}

\* the streams of two events, the k-th with the k-th post id; the first post is not
\* a reply to itself
PairStreams ==
    {<<a, b>> : a \in {e \in PairEvents(PostIdOf(1)) : e.root_id # e.id},
                b \in PairEvents(PostIdOf(2))}

\* an interface that answers every message, and a conversation of two posts
InitSession ==
    /\ \E s \in PairStreams :
          /\ Constructed(Direct("agent",
                    MattermostConfig(FALSE, BotName, BotId, LargeMax), FALSE))
          /\ PipelineIdle(s)
    /\ ChunkerIdle
    /\ HttpIdle
    /\ TokenIdle

SpecSession == InitSession /\ [][Next]_vars

\* ------------------------------------------------------------------ damaged inputs

\* the shapes of a stream input that is not a well-formed posted event: text that
\* is not JSON, the hello event, an event of another type, and a posted event
\* whose embedded post is not JSON
OtherShapes == {"invalid_json", "hello", "other", "bad_post"}

\* the inputs that carry what a conversation event carries but are not well-formed
\* posted events
DamagedEvents(id) ==
    {[e EXCEPT !.shape = shape] : e \in PairEvents(id), shape \in OtherShapes}

\* the streams of two inputs, the k-th with the k-th post id, of which at least
\* one is not a well-formed posted event
DamagedStreams ==
    {<<a, b>> : a \in DamagedEvents(PostIdOf(1)),
                b \in {e \in PairEvents(PostIdOf(2)) : e.channel_id = <<"C", "1">>}
                      \cup {e \in DamagedEvents(PostIdOf(2)) :
                                e.channel_id = <<"C", "1">> /\ e.root_id = <<>>}}
    \cup {<<a, b>> : a \in {e \in PairEvents(PostIdOf(1)) :
                                e.channel_id = <<"C", "1">> /\ e.root_id = <<>>},
                     b \in {e \in DamagedEvents(PostIdOf(2)) : e.root_id = <<>>}}

\* an interface that answers every message receives two inputs
InitStream ==
    /\ \E s \in DamagedStreams :
          /\ Constructed(Direct("agent",
                    MattermostConfig(FALSE, BotName, BotId, LargeMax), FALSE))
          /\ PipelineIdle(s)
    /\ ChunkerIdle
    /\ HttpIdle
    /\ TokenIdle

SpecStream == InitStream /\ [][Next]_vars

\* ------------------------------------------------------------------ slash commands

\* f"{x}" of an optional string: str(None) is "None"
Format(x) == IF x = NoneVal THEN <<"N", "o", "n", "e">> ELSE x

\* x or "" of an optional string
OrEmpty(x) == IF Truthy(x) THEN x ELSE <<>>

\* "/ask"
CommandName == <<"/", "a", "s", "k">>

\* the form fields of a slash command request that handle_slash_command reads; a
\* field the form lacks is None
SlashCommand(token, channel_id, user_id, text) ==
    [route |-> "command", token |-> token, command |-> CommandName,
     channel_id |-> channel_id, user_id |-> user_id, text |-> text]

\* the texts of the commands drawn: none, "", "hi", "yo"
CommandTexts == {NoneVal, <<>>, <<"h", "i">>, <<"y", "o">>}

\* the slash command requests drawn
SlashCommands ==
    {SlashCommand(NoneVal, ch, u, t) :
        ch \in Channels, u \in {UserId, OtherUserId, NoneVal}, t \in CommandTexts}

\* a session id made of the channel only
CommandSessionIdChannelOnly(channel_id, user_id) ==
    SessionSource \o <<"_">> \o Format(channel_id)

\* session_id of handle_slash_command
CommandSessionId(channel_id, user_id) ==
    SessionSource \o <<"_">> \o Format(channel_id) \o <<"_">> \o Format(user_id)

\* MattermostWebhookResponse(text=, response_type=, username=)
WebhookResponse(text, response_type, username) ==
    [text |-> text, response_type |-> response_type, username |-> username]

\* "Usage: "
UsagePrefix == <<"U", "s", "a", "g", "e", ":", " ">>

\* " <your question>"
UsageSuffix ==
    <<" ", "<", "y", "o", "u", "r", " ", "q", "u", "e", "s", "t", "i", "o", "n", ">">>

\* "I couldn't generate a response."
NoResponseText ==
    <<"I", " ", "c", "o", "u", "l", "d", "n", "'", "t", " ", "g", "e", "n", "e", "r",
      "a", "t", "e", " ", "a", " ", "r", "e", "s", "p", "o", "n", "s", "e", ".">>

\* "No agent configured."
NoAgentText ==
    <<"N", "o", " ", "a", "g", "e", "n", "t", " ", "c", "o", "n", "f", "i", "g", "u",
      "r", "e", "d", ".">>

\* interface.entity_name: the name of the one entity
EntityName == EntityKind

\* the frame of a route handler that has returned reply
Replied(req, reply) ==
    [pc |-> "done", message |-> OrEmpty(req.text), session_id |-> <<>>,
     outcome |-> NoOutcome, reply |-> reply]

\* the frame of a route handler suspended in await <entity>.arun
AwaitingCommand(req) ==
    [pc |-> "awaiting", message |-> OrEmpty(req.text),
     session_id |-> CommandSessionId(req.channel_id, req.user_id),
     outcome |-> NoOutcome, reply |-> NoneVal]

\* handle_slash_command called with the next request: the form is read, a command
\* without text is answered with the usage, any other is dispatched to the entity
HandleSlashCommand ==
    /\ served < Len(requests)
    /\ requests[served + 1].route = "command"
    /\ LET i == served + 1
           req == requests[i]
           message == OrEmpty(req.text)
       IN  /\ served' = i
           /\ IF message = <<>>
              THEN /\ http_frames' = Append(http_frames,
                        Replied(req, WebhookResponse(
                            UsagePrefix \o Format(req.command) \o UsageSuffix,
                            "ephemeral", NoneVal)))
                   /\ UNCHANGED dispatched
              ELSE IF EntityKind = "none"
              THEN /\ http_frames' = Append(http_frames,
                        Replied(req, WebhookResponse(NoAgentText, "in_channel", EntityName)))
                   /\ UNCHANGED dispatched
              ELSE /\ http_frames' = Append(http_frames, AwaitingCommand(req))
                   /\ dispatched' = Append(dispatched,
                        [ev |-> i, entity |-> EntityKind, message |-> message,
                         session_id |-> AwaitingCommand(req).session_id])
    /\ UNCHANGED <<requests, stream, delivered, handlers, posted,
                   ctor_vars, conn_vars, chunk_vars, token_vars>>

\* response_text of handle_slash_command once arun has returned
ResponseText(outcome) ==
    IF outcome.response = "object" THEN outcome.content ELSE NoResponseText

\* arun ends for the i-th request: the route handler returns the response, or the
\* fallback when the entity raised
CommandReturns(i) ==
    /\ requests[i].route = "command"
    /\ http_frames[i].pc = "awaiting"
    /\ \E outcome \in Outcomes :
          http_frames' = [http_frames EXCEPT ![i] =
              [@ EXCEPT !.pc = "done", !.outcome = outcome,
                        !.reply =
                            IF outcome.kind = "raises"
                            THEN WebhookResponse(ErrorPrefix \o outcome.error,
                                                 "ephemeral", NoneVal)
                            ELSE WebhookResponse(ResponseText(outcome),
                                                 "in_channel", EntityName)]]
    /\ UNCHANGED <<requests, served, pipe_vars, ctor_vars, conn_vars, chunk_vars, token_vars>>

\* the application with its routes attached receives two slash commands
InitCommand ==
    /\ \E kind \in EntityKinds :
          Constructed(Direct(kind, MattermostConfig(TRUE, BotName, BotId, LargeMax), TRUE))
    /\ PipelineIdle(<<>>)
    /\ ChunkerIdle
    /\ TokenIdle
    /\ requests \in {<<a, b>> : a \in SlashCommands, b \in SlashCommands}
    /\ served = 0
    /\ http_frames = <<>>

NextCommand ==
    \/ HandleSlashCommand
    \/ \E i \in 1..Len(http_frames) : CommandReturns(i)

SpecCommand == InitCommand /\ [][NextCommand]_vars

\* ------------------------------------------------------------------ outgoing webhooks

RECURSIVE ReplaceOnce(_, _)
\* s.replace(p, "", 1) for a non-empty p: the first occurrence of p is cut out
ReplaceOnce(s, p) ==
    IF Len(s) < Len(p) THEN s
    ELSE IF SubSeq(s, 1, Len(p)) = p THEN DropFirst(s, Len(p))
    ELSE <<Head(s)>> \o ReplaceOnce(Tail(s), p)

\* the fields of an outgoing webhook payload that handle_outgoing_webhook reads,
\* and its token
OutgoingWebhook(token, channel_id, post_id, text, trigger_word) ==
    [route |-> "webhook", token |-> token, channel_id |-> channel_id,
     post_id |-> post_id, text |-> text, trigger_word |-> trigger_word]

\* "!"
TriggerWord == <<"!">>

\* the texts of the webhooks drawn: none, "", "hi", "!", "! hi", "!!", " "
WebhookTexts ==
    {NoneVal, <<>>, <<"h", "i">>, <<"!">>, <<"!", " ", "h", "i">>, <<"!", "!">>, <<" ">>}

\* the tokens a request carries: none, "a", "b"
RequestTokens == {NoneVal, <<"a">>, <<"b">>}

\* the token the integration expects: none configured, or "a"
ExpectedTokens == {<<>>, <<"a">>}

\* the outgoing webhook requests drawn
OutgoingWebhooks ==
    {OutgoingWebhook(tok, <<"C", "1">>, PostIdOf(1), t, w) :
        tok \in RequestTokens, t \in WebhookTexts, w \in {NoneVal, TriggerWord}}

\* the slash command requests drawn along with the webhooks
TokenCommands ==
    {SlashCommand(tok, <<"C", "1">>, UserId, t) :
        tok \in RequestTokens, t \in {<<>>, <<"h", "i">>}}

\* "No message provided"
NoMessageText ==
    <<"N", "o", " ", "m", "e", "s", "s", "a", "g", "e", " ",
      "p", "r", "o", "v", "i", "d", "e", "d">>

\* "Hello! How can I help you?"
HelloText ==
    <<"H", "e", "l", "l", "o", "!", " ", "H", "o", "w", " ", "c", "a", "n", " ", "I", " ",
      "h", "e", "l", "p", " ", "y", "o", "u", "?">>

\* the text as it came, trigger word included
WebhookMessageKeepTrigger(req) == req.text

\* message of handle_outgoing_webhook: the text, without the first occurrence of
\* the trigger word and stripped when the payload names a trigger word
WebhookMessage(req) ==
    IF Truthy(req.trigger_word)
    THEN Strip(ReplaceOnce(req.text, req.trigger_word))
    ELSE req.text

\* session_id of handle_outgoing_webhook
WebhookSessionId(channel_id, post_id) ==
    SessionSource \o <<"_">> \o Format(channel_id) \o <<"_">> \o Format(post_id)

\* the frame of handle_outgoing_webhook suspended in await <entity>.arun
AwaitingWebhook(req) ==
    [pc |-> "awaiting", message |-> WebhookMessage(req),
     session_id |-> WebhookSessionId(req.channel_id, req.post_id),
     outcome |-> NoOutcome, reply |-> NoneVal]

\* handle_outgoing_webhook called with the next request: a payload without text
\* and one that is only its trigger word are answered at once, any other is
\* dispatched to the entity
HandleOutgoingWebhook ==
    /\ served < Len(requests)
    /\ requests[served + 1].route = "webhook"
    /\ LET i == served + 1
           req == requests[i]
       IN  /\ served' = i
           /\ IF ~Truthy(req.text)
              THEN /\ http_frames' = Append(http_frames,
                        Replied(req, WebhookResponse(NoMessageText, "in_channel", NoneVal)))
                   /\ UNCHANGED dispatched
              ELSE IF ~Truthy(WebhookMessage(req))
              THEN /\ http_frames' = Append(http_frames,
                        [Replied(req, WebhookResponse(HelloText, "in_channel", NoneVal))
                            EXCEPT !.message = WebhookMessage(req)])
                   /\ UNCHANGED dispatched
              ELSE IF EntityKind = "none"
              THEN /\ http_frames' = Append(http_frames,
                        [Replied(req, WebhookResponse(NoAgentText, "in_channel", EntityName))
                            EXCEPT !.message = WebhookMessage(req)])
                   /\ UNCHANGED dispatched
              ELSE /\ http_frames' = Append(http_frames, AwaitingWebhook(req))
                   /\ dispatched' = Append(dispatched,
                        [ev |-> i, entity |-> EntityKind, message |-> WebhookMessage(req),
                         session_id |-> AwaitingWebhook(req).session_id])
    /\ UNCHANGED <<requests, stream, delivered, handlers, posted,
                   ctor_vars, conn_vars, chunk_vars, token_vars>>

\* arun ends for the i-th request, a webhook: handle_outgoing_webhook returns the
\* response, or the fallback when the entity raised
WebhookReturns(i) ==
    /\ requests[i].route = "webhook"
    /\ http_frames[i].pc = "awaiting"
    /\ \E outcome \in Outcomes :
          http_frames' = [http_frames EXCEPT ![i] =
              [@ EXCEPT !.pc = "done", !.outcome = outcome,
                        !.reply =
                            IF outcome.kind = "raises"
                            THEN WebhookResponse(ErrorPrefix \o outcome.error,
                                                 "ephemeral", NoneVal)
                            ELSE WebhookResponse(ResponseText(outcome),
                                                 "in_channel", EntityName)]]
    /\ UNCHANGED <<requests, served, pipe_vars, ctor_vars, conn_vars, chunk_vars, token_vars>>

\* the application with its routes attached receives an outgoing webhook and a
\* slash command, in either order; the integration was created with a token or
\* with none
InitHttp ==
    /\ \E kind \in EntityKinds :
          Constructed(Direct(kind, MattermostConfig(TRUE, BotName, BotId, LargeMax), TRUE))
    /\ PipelineIdle(<<>>)
    /\ ChunkerIdle
    /\ request_token = NoneVal
    /\ expected_token \in ExpectedTokens
    /\ token_result = "idle"
    /\ requests \in {<<w, c>> : w \in OutgoingWebhooks, c \in TokenCommands}
                    \cup {<<c, w>> : w \in OutgoingWebhooks, c \in TokenCommands}
    /\ served = 0
    /\ http_frames = <<>>

NextHttp ==
    \/ HandleOutgoingWebhook
    \/ HandleSlashCommand
    \/ \E i \in 1..Len(http_frames) : WebhookReturns(i)
    \/ \E i \in 1..Len(http_frames) : CommandReturns(i)

SpecHttp == InitHttp /\ [][NextHttp]_vars

\* ------------------------------------------------------------------ token validation

\* longest token drawn
MaxTokenLen == 2

\* a character outside ASCII (e with acute accent), named by its code point
NonAscii == "U+00E9"

\* the characters tokens are drawn from
TokenAlphabet == {"a", "b", NonAscii}

\* the values drawn for either token: None and every text up to the longest
Tokens == {NoneVal} \cup TextsUpTo(TokenAlphabet, MaxTokenLen)

\* s holds ASCII characters only
IsAscii(s) == \A k \in 1..Len(s) : s[k] # NonAscii

\* hmac.compare_digest(a, b) on two str: it raises TypeError when either holds a
\* non-ASCII character, and else answers whether they are equal
CompareDigest(a, b) ==
    IF ~IsAscii(a) \/ ~IsAscii(b) THEN "TypeError"
    ELSE IF a = b THEN "True"
    ELSE "False"

\* validate_mattermost_token(request_token, expected_token): "True", "False", or
\* the exception it raises
ValidateMattermostToken(request, expected) ==
    IF ~Truthy(request) \/ ~Truthy(expected) THEN "False"
    ELSE CompareDigest(request, expected)

\* verify_webhook_request(request, expected_token) for a request carrying token:
\* skipped without an expected token, else passed, or the 401 or the TypeError raised
VerifyWebhookRequest(token, expected) ==
    IF ~Truthy(expected) THEN "skipped"
    ELSE IF ValidateMattermostToken(token, expected) = "True" THEN "passed"
    ELSE IF ValidateMattermostToken(token, expected) = "False" THEN "401"
    ELSE "TypeError"

\* validate_mattermost_token is called with two tokens
InitToken ==
    /\ Constructed(Direct("agent", MattermostConfig(TRUE, BotName, BotId, SmallMax), TRUE))
    /\ PipelineIdle(<<>>)
    /\ ChunkerIdle
    /\ HttpIdle
    /\ request_token \in Tokens
    /\ expected_token \in Tokens
    /\ token_result = "pending"

\* the call ends
ValidateToken ==
    /\ token_result = "pending"
    /\ token_result' = ValidateMattermostToken(request_token, expected_token)
    /\ UNCHANGED <<request_token, expected_token,
                   ctor_vars, conn_vars, pipe_vars, chunk_vars, http_vars>>

SpecToken == InitToken /\ [][ValidateToken]_vars

\* ------------------------------------------------------------------ chunker run

\* _chunk_message is called with a message and a maximum length
InitChunk ==
    /\ Constructed(Direct("agent", MattermostConfig(TRUE, BotName, BotId, SmallMax), TRUE))
    /\ PipelineIdle(<<>>)
    /\ HttpIdle
    /\ TokenIdle
    /\ chunk_input \in TextsUpTo(ChunkAlphabet, MaxTextLen)
    /\ chunk_max \in 1..MaxChunkLen
    /\ chunk_pc = "call"
    /\ c_message = chunk_input
    /\ c_chunks = <<>>

\* if len(message) <= max_message_length: return [message]
ChunkShort ==
    /\ chunk_pc = "call"
    /\ Len(c_message) <= chunk_max
    /\ c_chunks' = <<c_message>>
    /\ chunk_pc' = "returned"
    /\ UNCHANGED <<chunk_input, chunk_max, c_message>>

\* chunks = [] and the while loop is entered
ChunkEnter ==
    /\ chunk_pc = "call"
    /\ Len(c_message) > chunk_max
    /\ c_chunks' = <<>>
    /\ chunk_pc' = "loop"
    /\ UNCHANGED <<chunk_input, chunk_max, c_message>>

\* the rest fits: chunks.append(message); break
ChunkLast ==
    /\ chunk_pc = "loop"
    /\ c_message # <<>>
    /\ Len(c_message) <= chunk_max
    /\ c_chunks' = Append(c_chunks, c_message)
    /\ chunk_pc' = "returned"
    /\ UNCHANGED <<chunk_input, chunk_max, c_message>>

\* one iteration that splits: chunks.append(message[:split_point]) and
\* message = message[split_point:].lstrip()
ChunkSplit ==
    /\ chunk_pc = "loop"
    /\ Len(c_message) > chunk_max
    /\ LET split_point == SplitPoint(c_message, chunk_max)
       IN  /\ c_chunks' = Append(c_chunks, TakeFirst(c_message, split_point))
           /\ c_message' = RestAfter(c_message, split_point)
    /\ UNCHANGED <<chunk_input, chunk_max, chunk_pc>>

\* while message: ends on the empty rest
ChunkExit ==
    /\ chunk_pc = "loop"
    /\ c_message = <<>>
    /\ chunk_pc' = "returned"
    /\ UNCHANGED <<chunk_input, chunk_max, c_message, c_chunks>>

NextChunkRun ==
    /\ \/ ChunkShort
       \/ ChunkEnter
       \/ ChunkLast
       \/ ChunkSplit
       \/ ChunkExit
    /\ UNCHANGED <<ctor_vars, conn_vars, pipe_vars, http_vars, token_vars>>

SpecChunk == InitChunk /\ [][NextChunkRun]_vars

\* ------------------------------------------------------------------ chunker claims

\* the run of the loop and the operator the pipeline uses compute the same list
ChunkRunAgrees ==
    chunk_pc = "returned" => c_chunks = ChunkMessage(chunk_input, chunk_max)

\* C7: for every message text and every maximum length M >= 1, no chunk that
\* _chunk_message returns (or has collected so far) is longer than M characters
C7_NoChunkLongerThanMax ==
    chunk_pc \in {"loop", "returned"} =>
        \A k \in 1..Len(c_chunks) : Len(c_chunks[k]) <= chunk_max

\* C7 witness: a message longer than M was split into several chunks, one of them
\* of exactly M characters
C7_Witness ==
    /\ chunk_pc = "returned"
    /\ Len(chunk_input) > chunk_max
    /\ Len(c_chunks) >= 2
    /\ \E k \in 1..Len(c_chunks) : Len(c_chunks[k]) = chunk_max

\* text is whitespace only
IsBlank(text) == \A k \in 1..Len(text) : text[k] \in Whitespace

RECURSIVE Decomposes(_, _)
\* text = c1 + w1 + c2 + w2 + ... + cN + wN for the chunks c1..cN and some
\* whitespace-only w1..wN
Decomposes(text, cs) ==
    IF cs = <<>> THEN text = <<>>
    ELSE /\ StartsWith(text, Head(cs))
         /\ \E w \in 0..(Len(text) - Len(Head(cs))) :
                /\ IsBlank(SubSeq(text, Len(Head(cs)) + 1, Len(Head(cs)) + w))
                /\ Decomposes(DropFirst(text, Len(Head(cs)) + w), Tail(cs))

\* C8: chunking loses only whitespace at chunk boundaries: the message is
\* chunk1 + w1 + ... + chunkN + wN with every w_i whitespace only, so that no other
\* character is dropped, duplicated or reordered
C8_OnlyBoundaryWhitespaceLost ==
    chunk_pc = "returned" => Decomposes(chunk_input, c_chunks)

\* C8 witness: a message was split into several chunks and whitespace was lost
C8_Witness ==
    /\ chunk_pc = "returned"
    /\ Len(c_chunks) >= 2
    /\ Concat(c_chunks) # chunk_input
    /\ Decomposes(chunk_input, c_chunks)

\* C9 as stated: the message alone when it is at most M long, and more than one
\* chunk whenever it is longer than M
C9_Original ==
    chunk_pc = "returned" =>
        /\ Len(chunk_input) <= chunk_max => c_chunks = <<chunk_input>>
        /\ Len(chunk_input) > chunk_max => Len(c_chunks) > 1

\* C9 amended: the message alone when it is at most M long; at least one chunk
\* always; and more than one chunk whenever the message without its trailing
\* whitespace is longer than M
C9_SingleOrSeveral ==
    chunk_pc = "returned" =>
        /\ Len(chunk_input) <= chunk_max => c_chunks = <<chunk_input>>
        /\ Len(c_chunks) >= 1
        /\ Len(RStrip(chunk_input)) > chunk_max => Len(c_chunks) > 1

\* C9 witness: a message longer than M only by its trailing whitespace came back as
\* one chunk
C9_Witness ==
    /\ chunk_pc = "returned"
    /\ Len(chunk_input) > chunk_max
    /\ Len(RStrip(chunk_input)) <= chunk_max
    /\ Len(c_chunks) = 1
    /\ c_chunks[1] # chunk_input

\* ------------------------------------------------------------------ pipeline claims

\* the calls of arun made for the i-th event, in order
CallsOf(i) == SelectSeq(dispatched, LAMBDA c : c.ev = i)

\* the posts made for the i-th event, in order
PostsOf(i) == SelectSeq(posted, LAMBDA p : p.ev = i)

\* the texts of the posts made for the i-th event, in order
TextsOf(i) == [k \in 1..Len(PostsOf(i)) |-> PostsOf(i)[k].data.message]

\* the events _handle_websocket_event has been called with
Handled == 1..Len(handlers)

\* s.endswith(p)
EndsWith(s, p) == Len(p) <= Len(s) /\ SubSeq(s, Len(s) - Len(p) + 1, Len(s)) = p

\* the bot is mentioned, in the claim's words: the self id is among mentioned_ids, or
\* the text contains "@" + the live username or "@" + the configured bot name
Mentioned(ev) ==
    \/ bot_user_id \in ev.mentioned_ids
    \/ Contains(ev.message, <<"@">> \o bot_username)
    \/ Contains(ev.message, <<"@">> \o config.bot_name)

\* the text without both mention forms, trimmed
Cleaned(ev) ==
    Strip(Remove(Remove(ev.message, <<"@">> \o bot_username), <<"@">> \o config.bot_name))

\* a posted event that is not self-authored and whose cleaned text is non-empty
Addressable(ev) ==
    /\ ev.shape = "posted"
    /\ ev.user_id # bot_user_id
    /\ Cleaned(ev) # <<>>

\* the thread root of an event: the post's root_id when non-empty, else its own id
ThreadRoot(ev) == IF ev.root_id # <<>> THEN ev.root_id ELSE ev.id

\* C1: a posted event whose author is the bot's resolved self id causes no call to
\* the entity and no outbound post, whatever the policy, the channel type and the
\* mentions of the message
C1_SelfAuthoredIgnored ==
    \A i \in Handled :
        (stream[i].shape = "posted" /\ stream[i].user_id = bot_user_id) =>
            CallsOf(i) = <<>> /\ PostsOf(i) = <<>>

\* C1 witness: a self-authored message in a direct channel that mentions the bot by
\* id and by name, with the policy off, was handled and dropped
C1_Witness ==
    \E i \in Handled :
        /\ stream[i].shape = "posted"
        /\ stream[i].user_id = bot_user_id
        /\ stream[i].channel_type = "D"
        /\ bot_user_id \in stream[i].mentioned_ids
        /\ Contains(stream[i].message, <<"@">> \o config.bot_name)
        /\ ~reply_to_mentions_only
        /\ handlers[i].pc = "done"

\* C2: with the mentions-only policy on, an addressable event is dispatched if and
\* only if its channel is direct or the bot is mentioned; without either there is no
\* dispatch and no outbound post
C2_MentionsOnlyPolicy ==
    \A i \in Handled :
        (reply_to_mentions_only /\ Addressable(stream[i])) =>
            /\ CallsOf(i) # <<>> <=>
                   (stream[i].channel_type = "D" \/ Mentioned(stream[i]))
            /\ (stream[i].channel_type # "D" /\ ~Mentioned(stream[i])) =>
                   PostsOf(i) = <<>>

\* C2 witness: with the policy on, a message of a direct channel that mentions
\* nobody was dispatched and answered
C2_Witness ==
    \E i \in Handled :
        /\ reply_to_mentions_only
        /\ Addressable(stream[i])
        /\ stream[i].channel_type = "D"
        /\ ~Mentioned(stream[i])
        /\ CallsOf(i) # <<>>
        /\ PostsOf(i) # <<>>

\* C3 as stated: when create_app built the interface from settings whose
\* reply_to_mentions_only is false, an addressable event of a non-direct channel
\* that does not mention the bot is dispatched to the entity
C3_ConfiguredPolicyApplies ==
    \A i \in Handled :
        ( /\ built = "create_app"
          /\ ~config.reply_to_mentions_only
          /\ Addressable(stream[i])
          /\ stream[i].channel_type # "D"
          /\ ~Mentioned(stream[i]) ) =>
            CallsOf(i) # <<>>

\* the fallback text for the error text err
Fallback(err) == ErrorPrefix \o err

\* xs is the first n elements of ys
IsPrefix(xs, ys) == Len(xs) <= Len(ys) /\ xs = SubSeq(ys, 1, Len(xs))

\* every post made for the i-th event is addressed to the event's channel and thread
InThreadOf(i) ==
    \A k \in 1..Len(PostsOf(i)) :
        /\ PostsOf(i)[k].data.channel_id = stream[i].channel_id
        /\ PostsOf(i)[k].data.root_id = ThreadRoot(stream[i])

\* C4 as stated: when the entity raised, the handler ends with the whole fallback
\* response posted to the triggering thread, exactly once
C4_Original ==
    \A i \in Handled :
        (handlers[i].pc = "done" /\ handlers[i].outcome.kind = "raises") =>
            /\ TextsOf(i) =
                   ChunkMessage(Fallback(handlers[i].outcome.error), config.max_message_length)
            /\ InThreadOf(i)

\* C4 amended: when the entity raised, the handler returns and has sent exactly one
\* response to the triggering thread, the text "Sorry, I encountered an error: "
\* followed by the error text: its chunks are posted there in order, one post when
\* the text fits the maximum length, all of them unless a post fails, and then
\* those before the failed one
C4_FallbackSent ==
    \A i \in Handled :
        (handlers[i].pc = "done" /\ handlers[i].outcome.kind = "raises") =>
            LET text == Fallback(handlers[i].outcome.error)
                want == ChunkMessage(text, config.max_message_length)
            IN  /\ IsPrefix(TextsOf(i), want)
                /\ ~handlers[i].send_error => TextsOf(i) = want
                /\ handlers[i].send_error => Len(TextsOf(i)) < Len(want)
                /\ (Len(text) <= config.max_message_length /\ ~handlers[i].send_error) =>
                       /\ TextsOf(i) = <<text>>
                       /\ StartsWith(TextsOf(i)[1], ErrorPrefix)
                /\ InThreadOf(i)

\* C4 witness: the entity raised and the handler ended with the fallback text posted
\* as one post that starts with the prefix
C4_Witness ==
    \E i \in Handled :
        /\ handlers[i].pc = "done"
        /\ handlers[i].outcome.kind = "raises"
        /\ ~handlers[i].send_error
        /\ Len(PostsOf(i)) = 1
        /\ StartsWith(PostsOf(i)[1].data.message, ErrorPrefix)
        /\ InThreadOf(i)

\* the event passes the filter, in the spec's words: addressable, and direct or
\* mentioned when the policy is on
PassesFilter(ev) ==
    /\ Addressable(ev)
    /\ reply_to_mentions_only => (ev.channel_type = "D" \/ Mentioned(ev))

\* the scenario message "@bot hello"
ScenarioMessage == <<"@", "b", "o", "t", " ", "h", "e", "l", "l", "o">>

\* the scenario event: "@bot hello" by another user in a non-direct channel
IsScenario(ev) ==
    /\ ev.shape = "posted"
    /\ ev.message = ScenarioMessage
    /\ ev.user_id = UserId
    /\ ev.channel_type = "O"
    /\ config.bot_name = <<"b", "o", "t">>

\* C5: an event that passes the filter causes exactly one call of arun, on the one
\* configured entity, with the cleaned text and the session id of its channel and
\* thread; any other event causes none; the posts made for an event are the first
\* chunks of its one response, each once; and the scenario message "@bot hello" is
\* dispatched once, as "hello", and in the scenario's run (the entity answers "ok"
\* and create_post returns) answered by one post
C5_OneDispatchOneResponse ==
    \A i \in Handled :
        LET ev == stream[i]
            calls == CallsOf(i)
            passes == PassesFilter(ev)
        IN  /\ passes =>
                  /\ Len(calls) = 1
                  /\ given[calls[1].entity] # NoneVal
                  /\ calls[1].message = Cleaned(ev)
                  /\ EndsWith(calls[1].session_id,
                              ev.channel_id \o <<"_">> \o ThreadRoot(ev))
            /\ ~passes => calls = <<>>
            /\ IF Truthy(handlers[i].response)
               THEN IsPrefix(TextsOf(i),
                             ChunkMessage(handlers[i].response, config.max_message_length))
               ELSE PostsOf(i) = <<>>
            /\ IsScenario(ev) =>
                  /\ Len(calls) = 1
                  /\ calls[1].message = <<"h", "e", "l", "l", "o">>
                  /\ ( /\ handlers[i].pc = "done"
                       /\ handlers[i].outcome.content = <<"o", "k">>
                       /\ ~handlers[i].send_error ) => Len(PostsOf(i)) = 1

\* C5 witness: the scenario event was dispatched once as "hello" and answered by
\* one post
C5_Witness ==
    \E i \in Handled :
        /\ IsScenario(stream[i])
        /\ handlers[i].pc = "done"
        /\ Len(CallsOf(i)) = 1
        /\ CallsOf(i)[1].message = <<"h", "e", "l", "l", "o">>
        /\ Len(PostsOf(i)) = 1

\* C6: every post made for an event goes to the event's channel with root_id equal
\* to the event's thread root (root_id when non-empty, else the post's own id), and
\* the session id of the event's dispatch ends in that same thread root
C6_PostsInOriginalThread ==
    \A i \in Handled :
        /\ InThreadOf(i)
        /\ \A k \in 1..Len(CallsOf(i)) :
              EndsWith(CallsOf(i)[k].session_id,
                       stream[i].channel_id \o <<"_">> \o ThreadRoot(stream[i]))

\* C6 witness: a reply inside a thread was answered in that thread, not under itself
C6_Witness ==
    \E i \in Handled :
        /\ stream[i].root_id # <<>>
        /\ stream[i].root_id # stream[i].id
        /\ PostsOf(i) # <<>>
        /\ PostsOf(i)[1].data.root_id = stream[i].root_id
        /\ CallsOf(i) # <<>>

\* C10: at any moment and in every interleaving, the posts made so far for one
\* response are the first chunks of its chunk list, in chunk order, as many as
\* create_post has returned for, all in the event's channel and thread
C10_ChunksInOrder ==
    \A i \in Handled :
        /\ TextsOf(i) = SubSeq(handlers[i].messages, 1, handlers[i].sent)
        /\ InThreadOf(i)

\* C10 witness: two responses of several chunks each were posted in full, their
\* posts interleaved
C10_Witness ==
    /\ \E a, b, c \in 1..Len(posted) :
          /\ a < b /\ b < c
          /\ posted[a].ev = posted[c].ev
          /\ posted[a].ev # posted[b].ev
    /\ \A i \in Handled :
          /\ handlers[i].pc = "done"
          /\ Len(PostsOf(i)) >= 2

\* the i-th handler stopped at a failed create_post: it has returned, the chunks
\* before the failed one are posted, each once and in order, and the failed chunk
\* and those after it are not
HaltedAtFailure(i) ==
    /\ handlers[i].pc = "done"
    /\ handlers[i].verdict = "dispatch"
    /\ handlers[i].sent < Len(handlers[i].messages)
    /\ Len(PostsOf(i)) = handlers[i].sent
    /\ TextsOf(i) = SubSeq(handlers[i].messages, 1, handlers[i].sent)

\* C11: if posting chunk k of a response fails, chunks 1..k-1 have each been posted
\* exactly once, chunk k and the later chunks are never posted in any later step,
\* nothing is retried (the handler's frame never changes again), and the failure
\* reaches neither the listener nor the event stream, which keeps delivering
C11_FailedPostHaltsResponse ==
    [][\A i \in Handled :
          /\ handlers'[i].send_error => HaltedAtFailure(i)'
          /\ handlers[i].send_error =>
                /\ HaltedAtFailure(i)
                /\ handlers'[i] = handlers[i]
                /\ PostsOf(i)' = PostsOf(i)
                /\ listener' = listener
                /\ websocket' = websocket]_vars

\* C11 witness: the second create_post of a response of several chunks failed after
\* the first chunk was posted, and the handler has returned
C11_Witness ==
    \E i \in Handled :
        /\ handlers[i].send_error
        /\ handlers[i].sent >= 1
        /\ Len(handlers[i].messages) > handlers[i].sent
        /\ HaltedAtFailure(i)

\* C12: two events of the same channel with the same thread root are dispatched with
\* the same session id, whoever wrote them, whatever their text and whatever was
\* handled between them; two events of the same channel with different thread roots
\* are dispatched with different session ids
C12_SessionKeyDeterminism ==
    \A a, b \in 1..Len(dispatched) :
        stream[dispatched[a].ev].channel_id = stream[dispatched[b].ev].channel_id =>
            ( ThreadRoot(stream[dispatched[a].ev]) = ThreadRoot(stream[dispatched[b].ev])
              <=> dispatched[a].session_id = dispatched[b].session_id )

\* C12 witness: a post and a reply to it, by different users and with different
\* texts, were dispatched with one session id after the first was answered
C12_Witness ==
    /\ Len(dispatched) = 2
    /\ LET a == stream[dispatched[1].ev]
           b == stream[dispatched[2].ev]
       IN  /\ a.channel_id = b.channel_id
           /\ b.root_id = a.id
           /\ a.user_id # b.user_id
           /\ a.message # b.message
           /\ PostsOf(1) # <<>>
           /\ dispatched[1].session_id = dispatched[2].session_id

\* the other case of C12: two posts of one channel that start threads of their own
\* were dispatched with different session ids
C12_WitnessApart ==
    /\ Len(dispatched) = 2
    /\ stream[1].channel_id = stream[2].channel_id
    /\ stream[1].root_id = <<>>
    /\ stream[2].root_id = <<>>
    /\ dispatched[1].session_id # dispatched[2].session_id

\* parts joined by underscores, as the claims spell a session id
Underscored(parts) == parts[1] \o <<"_">> \o parts[2] \o <<"_">> \o parts[3]

\* a posted event in channel "C1" with post id "P1" and empty root_id
IsFirstPostOfC1(ev) ==
    /\ ev.shape = "posted"
    /\ ev.channel_id = <<"C", "1">>
    /\ ev.id = <<"P", "1">>
    /\ ev.root_id = <<>>

\* C13 as stated: the session id of a stream-sourced message is the source prefix,
\* the channel id and the thread root joined by underscores, and for a posted event
\* in channel "C1" with post id "P1" and empty root_id it is "stream_C1_P1"
C13_Original ==
    \A k \in 1..Len(dispatched) :
        IsFirstPostOfC1(stream[dispatched[k].ev]) =>
            dispatched[k].session_id =
                <<"s", "t", "r", "e", "a", "m", "_", "C", "1", "_", "P", "1">>

\* C13 amended: the session id of a stream-sourced message is "mattermost", the
\* channel id and the thread root joined by underscores, and for a posted event in
\* channel "C1" with post id "P1" and empty root_id it is "mattermost_C1_P1"
C13_SessionIdFormat ==
    \A k \in 1..Len(dispatched) :
        LET ev == stream[dispatched[k].ev]
        IN  /\ dispatched[k].session_id =
                  Underscored(<< <<"m", "a", "t", "t", "e", "r", "m", "o", "s", "t">>,
                                 ev.channel_id, ThreadRoot(ev) >>)
            /\ IsFirstPostOfC1(ev) =>
                  dispatched[k].session_id =
                      <<"m", "a", "t", "t", "e", "r", "m", "o", "s", "t", "_",
                        "C", "1", "_", "P", "1">>

\* C13 witness: the scenario message, posted in channel "C1" with post id "P1" and
\* empty root_id, was dispatched
C13_Witness ==
    \E k \in 1..Len(dispatched) :
        /\ IsFirstPostOfC1(stream[dispatched[k].ev])
        /\ IsScenario(stream[dispatched[k].ev])
        /\ dispatched[k].message = <<"h", "e", "l", "l", "o">>
        /\ EndsWith(dispatched[k].session_id, <<"_", "C", "1", "_", "P", "1">>)

\* C14: the session id of a slash command depends only on its channel_id and its
\* user_id: two commands of one channel are dispatched with the same session id if
\* they are by the same user, whatever their text, and with different session ids
\* if they are by different users
C14_CommandSessionPerUser ==
    \A a, b \in 1..Len(dispatched) :
        LET ra == requests[dispatched[a].ev]
            rb == requests[dispatched[b].ev]
        IN  ra.channel_id = rb.channel_id =>
                (ra.user_id = rb.user_id
                    <=> dispatched[a].session_id = dispatched[b].session_id)

\* C14 witness: two commands by one user in one channel with different texts were
\* dispatched with one session id that ends in the user's id
C14_Witness ==
    /\ Len(dispatched) = 2
    /\ requests[1].channel_id = requests[2].channel_id
    /\ requests[1].user_id = UserId
    /\ requests[2].user_id = UserId
    /\ dispatched[1].message # dispatched[2].message
    /\ dispatched[1].session_id = dispatched[2].session_id
    /\ EndsWith(dispatched[1].session_id, <<"_">> \o UserId)

\* C15: validate_mattermost_token(token, expected) returns true if and only if
\* both arguments are non-empty and equal, and returns false whenever either
\* argument is empty or None, including when both are empty
C15_TokenValidation ==
    token_result \notin {"idle", "pending"} =>
        /\ token_result = "True" <=>
               ( /\ Truthy(request_token)
                 /\ Truthy(expected_token)
                 /\ request_token = expected_token )
        /\ token_result = "False" <=>
               ( \/ ~Truthy(request_token)
                 \/ ~Truthy(expected_token)
                 \/ request_token # expected_token )

\* ------------------------------------------------------------------ lifecycle claims

\* the driver calls the step made, in order
NewCalls == SubSeq(driver_calls', Len(driver_calls) + 1, Len(driver_calls'))

\* the attributes among self.agent, self.team, self.workflow that are set
EntitiesSet ==
    {k \in EntityKinds :
        [agent |-> agent, team |-> team, workflow |-> workflow][k] # NoneVal}

\* the outcome of the construction agrees with the number of entities given, and a
\* constructed instance holds exactly one entity, the one given, which the entity
\* property returns
ConstructedRight ==
    /\ built = "raised" => Provided(given) # 1
    /\ IsConstructed =>
          /\ Provided(given) = 1
          /\ Cardinality(EntitiesSet) = 1
          /\ \A k \in EntitiesSet : given[k] # NoneVal /\ Entity = given[k]

\* C16: constructing the interface raises ValueError if and only if the number of
\* entities given among agent, team and workflow is not exactly one; a constructed
\* instance has exactly one entity, which the entity property returns, and neither
\* connecting, disconnecting nor handling events changes it afterwards
C16_ExactlyOneEntity ==
    [][ /\ ConstructedRight
        /\ ConstructedRight'
        /\ built # "call" =>
              /\ built' = built
              /\ <<agent, team, workflow>>' = <<agent, team, workflow>>
              /\ Entity' = Entity ]_vars

\* C16 witness: an instance constructed with a team alone has connected, handled an
\* event with the team and been disconnected
C16_Witness ==
    /\ IsConstructed
    /\ given.team # NoneVal
    /\ Entity = given.team
    /\ Len(dispatched) = 1
    /\ dispatched[1].entity = "team"
    /\ driver = "logged_out"

\* C17: if login or the who-am-I query fails inside connect(), the exception
\* reaches connect()'s caller, connect() has called login once and nothing after
\* the failed call, and the attempt neither opens the event stream nor sets the
\* running flag: an interface that was not running is not running afterwards
C17_ConnectFailurePropagates ==
    [][ (\E k \in 1..Len(NewCalls) :
            NewCalls[k].op \in {"login", "get_user"} /\ ~NewCalls[k].ok) =>
          /\ NewCalls \in { <<PlatformCall("login", FALSE)>>,
                             <<PlatformCall("login", TRUE), PlatformCall("get_user", FALSE)>> }
          /\ listener = "start"
          /\ listener' = "raised"
          /\ running' = running
          /\ websocket' = websocket
          /\ bot_user_id' = bot_user_id ]_vars

\* C17 witness: the who-am-I query of the first connect() failed after a login, the
\* caller got the exception, and the interface is neither running nor listening
C17_Witness ==
    /\ driver_calls = <<PlatformCall("login", TRUE), PlatformCall("get_user", FALSE)>>
    /\ listener = "raised"
    /\ ~running
    /\ ~websocket

\* C18: disconnect() called on an interface that is already disconnected (never
\* connected, or disconnected before) changes no state and makes no call to the
\* platform, so that the session is logged out at most once per login
C18_DisconnectIdempotent ==
    [][ ~running =>
          \A k \in 1..Len(NewCalls) : NewCalls[k].op # "logout" ]_vars

\* the connection status, derived from the running flag and the event stream
Status ==
    IF running /\ websocket THEN "Connected"
    ELSE IF running THEN "Connecting"
    ELSE "Disconnected"

\* C19: between calls the status is Disconnected or Connected and never rests in
\* between; Connected is entered only by a connect() whose login and identity
\* resolution succeeded and which opened the event stream; and every disconnect()
\* ends in Disconnected with the session logged out
C19_StatusCycle ==
    [][ /\ Status' \in {"Disconnected", "Connected"}
        /\ (Status # "Connected" /\ Status' = "Connected") =>
              /\ NewCalls # <<>>
              /\ \A k \in 1..Len(NewCalls) : NewCalls[k].ok
              /\ NewCalls[1].op = "login"
              /\ NewCalls[Len(NewCalls)].op = "init_websocket"
              /\ bot_user_id' # NoneVal
        /\ (NewCalls # <<>> /\ NewCalls[1].op = "logout") =>
              /\ Status' = "Disconnected"
              /\ NewCalls[1].ok ]_vars

\* C20: when the entity returns no response object, or a response whose content is
\* None or empty, the handler of the event returns normally without any post: no
\* fallback text and no send error
C20_NoResponseNoPost ==
    \A i \in Handled :
        ( /\ handlers[i].outcome.kind = "returns"
          /\ \/ handlers[i].outcome.response = "none"
             \/ handlers[i].outcome.content \in {NoneVal, <<>>} ) =>
            /\ handlers[i].pc = "done"
            /\ PostsOf(i) = <<>>
            /\ handlers[i].messages = <<>>
            /\ ~handlers[i].send_error

\* C20 witness: the entity was called for an event and returned a response object
\* with empty content; the handler has returned and nothing is posted
C20_Witness ==
    \E i \in Handled :
        /\ CallsOf(i) # <<>>
        /\ handlers[i].outcome.kind = "returns"
        /\ handlers[i].outcome.response = "object"
        /\ handlers[i].outcome.content = <<>>
        /\ handlers[i].pc = "done"
        /\ PostsOf(i) = <<>>

\* ------------------------------------------------------------------ route claims

\* the request has no text to answer, in the claim's words: its text is missing or
\* empty, or it names a trigger word and nothing but whitespace is left of the text
\* once an occurrence of the trigger word is taken out
EmptyRequest(req) ==
    \/ ~Truthy(req.text)
    \/ /\ req.route = "webhook"
       /\ Truthy(req.trigger_word)
       /\ \/ IsBlank(req.text)
          \/ \E k \in 1..Len(req.text) :
                /\ SubSeq(req.text, k, k + Len(req.trigger_word) - 1) = req.trigger_word
                /\ IsBlank(SubSeq(req.text, 1, k - 1)
                           \o SubSeq(req.text, k + Len(req.trigger_word), Len(req.text)))

\* the help or usage response of the route of req
IsHelp(req, reply) ==
    IF req.route = "webhook"
    THEN reply.text \in {NoMessageText, HelloText}
    ELSE /\ reply.text = UsagePrefix \o CommandName \o UsageSuffix
         /\ reply.response_type = "ephemeral"

\* the route handlers that have returned
Answered == {i \in 1..Len(http_frames) : http_frames[i].pc = "done"}

\* the response of the i-th request follows the three cases of the claim; texts
\* holds what an in_channel response may carry for the entity's outcome
RouteContract(i, texts(_)) ==
    LET req == requests[i]
        frame == http_frames[i]
    IN  IF EmptyRequest(req)
        THEN /\ IsHelp(req, frame.reply)
             /\ \A k \in 1..Len(dispatched) : dispatched[k].ev # i
        ELSE IF frame.outcome.kind = "raises"
        THEN /\ frame.reply.response_type = "ephemeral"
             /\ IsPrefix(ErrorPrefix, frame.reply.text)
        ELSE /\ frame.outcome.kind = "returns"
             /\ frame.reply.response_type = "in_channel"
             /\ frame.reply.text \in texts(frame.outcome)

\* the claim's last case as written: the response carries the entity's content
ContentOnly(outcome) == {outcome.content}

\* the last case with the stock text of a call that returned no response object
ContentOrStock(outcome) ==
    IF outcome.response = "object" THEN {outcome.content} ELSE {NoResponseText}

\* no request without text is handed to the entity, and a handler is never left
\* without a response once the entity's call has ended
RoutesAnswer ==
    /\ \A k \in 1..Len(dispatched) : ~EmptyRequest(requests[dispatched[k].ev])
    /\ \A i \in 1..Len(http_frames) :
          http_frames[i].pc \in {"awaiting", "done"}
          /\ (http_frames[i].pc = "done" =>
                http_frames[i].reply.response_type \in {"in_channel", "ephemeral"})

\* C21 as stated: both route handlers always return a structured response: the
\* ephemeral 'Sorry, I encountered an error:' text when the entity raises, a help
\* or usage response without any call to the entity when the request has no text,
\* and otherwise an in_channel response whose text is the entity's content
C21_Original ==
    /\ RoutesAnswer
    /\ \A i \in Answered : RouteContract(i, ContentOnly)

\* C21: both route handlers always return a structured response: the ephemeral
\* 'Sorry, I encountered an error:' text when the entity raises, a help or usage
\* response without any call to the entity when the request has no text, and
\* otherwise an in_channel response whose text is the entity's content, or
\* "I couldn't generate a response." when the entity returned no response object
C21_StructuredResponse ==
    /\ RoutesAnswer
    /\ \A i \in Answered : RouteContract(i, ContentOrStock)

\* C21 witness: a webhook whose text is its trigger word was answered with the
\* greeting and no call, and a slash command was dispatched and answered; or a
\* webhook "! hi" was dispatched as "hi" and the entity raised
C21_Witness ==
    /\ Len(http_frames) = 2
    /\ \A i \in 1..2 : http_frames[i].pc = "done"
    /\ \E i \in 1..2 :
          /\ requests[i].route = "webhook"
          /\ \/ /\ requests[i].text = TriggerWord
                /\ http_frames[i].reply.text = HelloText
                /\ Len(dispatched) = 1
                /\ http_frames[3 - i].reply.text = NoResponseText
             \/ /\ requests[i].text = <<"!", " ", "h", "i">>
                /\ requests[i].trigger_word = TriggerWord
                /\ http_frames[i].message = <<"h", "i">>
                /\ http_frames[i].outcome.kind = "raises"
                /\ http_frames[i].reply.response_type = "ephemeral"

\* the 0-based indices from lowest on at which p lies within the first maxLen
\* characters of message
BreaksAt(message, p, maxLen, lowest) ==
    {k \in lowest..(maxLen - Len(p)) : SubSeq(message, k + 1, k + Len(p)) = p}

\* the highest element of a non-empty set of numbers
Highest(S) == CHOOSE k \in S : \A j \in S : j <= k

\* the break point of the claim's strict preference, counting the breaks from
\* index lowest on: the last double newline, else the last newline, else the last
\* space within the first maxLen characters, else maxLen
PreferredBreak(message, maxLen, lowest) ==
    LET double == BreaksAt(message, <<"\n", "\n">>, maxLen, lowest)
        single == BreaksAt(message, <<"\n">>, maxLen, lowest)
        space == BreaksAt(message, <<" ">>, maxLen, lowest)
    IN  IF double # {} THEN Highest(double)
        ELSE IF single # {} THEN Highest(single)
        ELSE IF space # {} THEN Highest(space)
        ELSE maxLen

\* a loop iteration of _chunk_message that has split the remaining text
SplitStep ==
    /\ chunk_pc = "loop"
    /\ Len(c_message) > chunk_max
    /\ Len(c_chunks') = Len(c_chunks) + 1

\* C22 as stated: the chunk a split emits ends at the last double newline within
\* the first M characters if there is one, else at the last single newline there,
\* else at the last space there, else after exactly M characters
C22_Original ==
    [][SplitStep =>
         c_chunks'[Len(c_chunks')] =
             TakeFirst(c_message, PreferredBreak(c_message, chunk_max, 0))]_vars

\* C22: the chunk a split emits ends at the last double newline within the first M
\* characters that does not start the text if there is one, else at the last single
\* newline there that does not start the text, else at the last space there that
\* does not start the text, else after exactly M characters; a break of lower
\* preference is never used when one of higher preference lies there past the
\* first character
C22_StrictPreference ==
    [][SplitStep =>
         /\ c_chunks'[Len(c_chunks')] =
                TakeFirst(c_message, PreferredBreak(c_message, chunk_max, 1))
         /\ c_chunks' = Append(c_chunks, c_chunks'[Len(c_chunks')])]_vars

\* C22 witness: a text of a word, a space, a word, a double newline and a word was
\* split at the double newline although a space and single newlines lie within
\* the limit as well
C22_Witness ==
    /\ chunk_pc = "returned"
    /\ chunk_input = <<"a", " ", "\n", "\n", "a", "a", "a">>
    /\ chunk_max = 4
    /\ c_chunks = << <<"a", " ">>, <<"a", "a", "a">> >>

\* ------------------------------------------------------------------ identity claims

\* the step is a connect() that returned
ConnectReturned == listener = "start" /\ listener' = "running"

\* the step asked the platform who the bot is
AskedIdentity == \E k \in 1..Len(NewCalls) : NewCalls[k].op = "get_user"

\* the step belongs to an event handler: an event is taken, the entity is called or
\* returns, or a chunk is posted
HandlerStep ==
    \/ handlers' # handlers
    \/ dispatched' # dispatched
    \/ posted' # posted
    \/ delivered' # delivered

\* C23: after a connect() that returned, the self id is the configured bot id when
\* one is configured, and the platform was not asked; otherwise the platform was
\* asked and the self id and the live name are the id and the username it
\* answered; and no step of an event handler changes the self id
C23_SelfIdentity ==
    [][ /\ ConnectReturned =>
              IF config.bot_id # <<>>
              THEN bot_user_id' = config.bot_id /\ ~AskedIdentity
              ELSE /\ AskedIdentity
                   /\ \E me \in Me :
                         bot_user_id' = me.id /\ bot_username' = me.username
        /\ HandlerStep => bot_user_id' = bot_user_id ]_vars

\* C23 witness: without a configured bot id connect() asked the platform and took
\* the id and the username "bob" it answered, and an event was handled to its end
\* afterwards with the self id as connect() left it
C23_Witness ==
    /\ IsConstructed
    /\ config.bot_id = <<>>
    /\ driver_calls = <<PlatformCall("login", TRUE), PlatformCall("get_user", TRUE),
                        PlatformCall("init_websocket", TRUE)>>
    /\ bot_user_id = BotId
    /\ bot_username = <<"b", "o", "b">>
    /\ Len(handlers) = 1
    /\ handlers[1].pc = "done"
    /\ posted # <<>>

\* ------------------------------------------------------------------ damaged input claims

\* C24: an input that is not a well-formed posted event (text that is not JSON, a
\* hello event, an event of another type, a posted event whose post is not JSON)
\* is dropped: its handler returns without a call to the entity, without a post
\* and without an exception; and a posted event that passes the filter is
\* dispatched all the same when such an input came before it
C24_DamagedInputDropped ==
    \A i \in Handled :
        /\ stream[i].shape # "posted" =>
              /\ handlers[i].pc = "done"
              /\ handlers[i].verdict \in {"error", "ignored"}
              /\ CallsOf(i) = <<>>
              /\ PostsOf(i) = <<>>
        /\ (stream[i].shape = "posted" /\ PassesFilter(stream[i])) =>
              /\ Len(CallsOf(i)) = 1
              /\ CallsOf(i)[1].message = Cleaned(stream[i])

\* C24 witness: a posted event whose post is not JSON was dropped, and the posted
\* event after it was dispatched and answered
C24_Witness ==
    /\ Len(handlers) = 2
    /\ stream[1].shape = "bad_post"
    /\ handlers[1].pc = "done"
    /\ CallsOf(1) = <<>>
    /\ stream[2].shape = "posted"
    /\ handlers[2].pc = "done"
    /\ Len(CallsOf(2)) = 1
    /\ PostsOf(2) # <<>>

\* C25: a posted event whose text is empty once "@" + the live username and "@" +
\* the configured bot name are removed and the rest is trimmed is dropped: its
\* handler returns with no call to the entity and no post, in a direct channel and
\* with the policy off as well
C25_EmptyAfterCleaningDropped ==
    \A i \in Handled :
        (stream[i].shape = "posted" /\ Cleaned(stream[i]) = <<>>) =>
            /\ handlers[i].pc = "done"
            /\ CallsOf(i) = <<>>
            /\ PostsOf(i) = <<>>

\* C25 witness: with the policy off, another user's "@bot " in a direct channel
\* was handled and dropped
C25_Witness ==
    \E i \in Handled :
        /\ ~reply_to_mentions_only
        /\ stream[i].shape = "posted"
        /\ stream[i].message = <<"@", "b", "o", "t", " ">>
        /\ stream[i].channel_type = "D"
        /\ stream[i].user_id = UserId
        /\ handlers[i].pc = "done"
        /\ handlers[i].verdict = "empty"
        /\ CallsOf(i) = <<>>

\* ------------------------------------------------------------------ shutdown claims

\* the step is a disconnect(): it logs out, or clears the running flag
DisconnectStep ==
    \/ running /\ ~running'
    \/ \E k \in 1..Len(NewCalls) : NewCalls[k].op = "logout"

\* a handler in flight can always take its next step
HandlersNeverStuck ==
    \A i \in 1..Len(handlers) :
        /\ handlers[i].pc = "awaiting" => ENABLED EntityReturns(i)
        /\ handlers[i].pc = "sleeping" => ENABLED AfterSleep(i)

\* the handler of the i-th event has left its await of the entity in this step
LeftAwait(i) == handlers[i].pc = "awaiting" /\ handlers'[i].pc # "awaiting"

\* C26: disconnect() cancels no work in flight: it clears the running flag and
\* logs out and touches no handler, call or post; and a handler that awaits the
\* entity, whether disconnect() has run or not, can always go on, and leaves its
\* await only with the entity's outcome and, when there is a response, with the
\* first post attempted
C26_InFlightWorkCompletes ==
    [][ /\ HandlersNeverStuck'
        /\ DisconnectStep =>
              /\ ~running'
              /\ Len(NewCalls) <= 1
              /\ UNCHANGED <<pipe_vars, bot_user_id, bot_username, listener, websocket>>
        /\ \A i \in 1..Len(handlers) :
              LeftAwait(i) =>
                  /\ handlers'[i].outcome \in Outcomes
                  /\ handlers'[i].response = ProcessResult(handlers'[i].outcome)
                  /\ Truthy(handlers'[i].response) =>
                        \/ /\ handlers'[i].sent = 1
                           /\ Len(posted') = Len(posted) + 1
                           /\ posted'[Len(posted')].ev = i
                        \/ handlers'[i].send_error ]_vars

\* C26 witness: disconnect() ran and logged out while the handler of an event was
\* awaiting the entity; the handler is still in flight
C26_Witness ==
    /\ Len(handlers) = 1
    /\ handlers[1].pc = "awaiting"
    /\ Len(dispatched) = 1
    /\ ~running
    /\ driver = "logged_out"
    /\ driver_calls[Len(driver_calls)] = PlatformCall("logout", TRUE)

\* the listener task has ended: its loop was left, or connect() raised
ListenerEnded == listener \in {"finished", "raised"}

\* C27: the listener task that connected leaves its loop only once the running
\* flag is cleared, and once the shutdown of the application has called
\* disconnect() the listener task eventually ends, whether disconnect() ran after
\* or before the task's connect()
C27_ListenerTerminates ==
    /\ [][(listener \in {"running", "asleep"} /\ ListenerEnded') => ~running]_vars
    /\ shutdown ~> ListenerEnded

\* C28: the interface is never left half-connected: whenever connect() raises, at
\* the login, at the identity query or at the opening of the event stream, the
\* running flag is false afterwards
C28_NeverHalfConnected ==
    [][(listener = "start" /\ listener' = "raised") => ~running']_vars

\* every step of a run of _chunk_message makes progress: a run that has not
\* returned can take a step, and an iteration that splits emits a non-empty chunk
\* and leaves a shorter text
ChunkerProgress ==
    /\ chunk_pc' # "returned" => (ENABLED NextChunkRun)'
    /\ SplitStep =>
          /\ Len(c_message') < Len(c_message)
          /\ c_chunks'[Len(c_chunks')] # <<>>

\* C29 as stated: for every message and every M >= 1, _chunk_message terminates:
\* each iteration that splits removes at least one character from the remaining
\* text, and every chunk emitted is non-empty
C29_Original ==
    [][ /\ ChunkerProgress
        /\ chunk_max >= 1 =>
              \A k \in 1..Len(c_chunks') : c_chunks'[k] # <<>> ]_vars

\* C29: for every message and every M >= 1, _chunk_message terminates: each
\* iteration that splits removes at least one character from the remaining text,
\* and every chunk emitted for a non-empty message is non-empty; the empty
\* message comes back as one empty chunk
C29_TerminatesWithNonEmptyChunks ==
    [][ /\ ChunkerProgress
        /\ (chunk_max >= 1 /\ chunk_input # <<>>) =>
              \A k \in 1..Len(c_chunks') : c_chunks'[k] # <<>>
        /\ (chunk_input = <<>> /\ chunk_pc' = "returned") => c_chunks' = << <<>> >> ]_vars

\* C29 witness: a text of seven characters without any break was cut with M = 1
\* into seven chunks of one character, and the run has returned
C29_Witness ==
    /\ chunk_pc = "returned"
    /\ chunk_max = 1
    /\ Len(chunk_input) = MaxTextLen
    /\ Len(c_chunks) = MaxTextLen
    /\ \A k \in 1..Len(c_chunks) : c_chunks[k] = <<"a">>

\* C30: when an expected token is configured, no webhook or slash command whose
\* token fails the validation against it reaches the entity; validation is
\* skipped only when no expected token is configured
C30_InvalidTokenRejected ==
    \A k \in 1..Len(dispatched) :
        VerifyWebhookRequest(requests[dispatched[k].ev].token, expected_token)
            \in {"skipped", "passed"}

====
